---- MODULE Spec2Model ----
(***************************************************************************)
(* glot-run, src/glot_run/run.rs: the client of the remote "run" service.  *)
(*                                                                         *)
(* A string is a sequence of one-character strings, so that trimming,      *)
(* JSON escaping and JSON decoding are computed character by character.    *)
(* An Option<String> is a record [some, val]; None is [some |-> FALSE].    *)
(***************************************************************************)
EXTENDS Integers, Sequences, FiniteSets, TLC

VARIABLES
    config,       \* the Config every call borrows (&Config): never written
    pc,           \* per thread: the stage of its invocation of run
    run_request,  \* per thread: the RunRequest given to run
    body,         \* per thread: the bytes serde_json::to_vec produced
    sent,         \* per thread: the requests handed to the transport by this invocation
    response,     \* per thread: the ureq::Response send_bytes returned
    outcome,      \* per thread: the Result<RunResult, Error> run returns
    input,        \* the argument of the pure function applied (SpecUrl, SpecJson)
    output        \* its result

vars == <<config, pc, run_request, body, sent, response, outcome, input, output>>

-----------------------------------------------------------------------------
(* Bounds of the model. *)

\* longest base_url drawn in SpecUrl
MaxUrlLen == 4

\* longest string drawn for stdin and command in SpecJson
MaxStrLen == 2

-----------------------------------------------------------------------------
(* Characters and strings. *)

Q == "\""

BS == "\\"

\* all sequences over alphabet of length at most n
RECURSIVE StringsUpTo(_, _)
StringsUpTo(alphabet, n) ==
    IF n = 0 THEN {<<>>}
    ELSE LET shorter == StringsUpTo(alphabet, n - 1)
         IN  shorter \cup {Append(s, c) : s \in shorter, c \in alphabet}

None == [some |-> FALSE, val |-> <<>>]

Some(s) == [some |-> TRUE, val |-> s]

Unset == [set |-> FALSE]

-----------------------------------------------------------------------------
(* Config::run_url *)

\* mutant: only one c is dropped from the end (strip_suffix)
trim_end_once(s, c) ==
    IF s = <<>> \/ s[Len(s)] # c
    THEN s
    ELSE SubSeq(s, 1, Len(s) - 1)

\* str::trim_end_matches(char): drop the longest suffix made of c
RECURSIVE trim_end_matches(_, _)
trim_end_matches(s, c) ==
    IF s = <<>> \/ s[Len(s)] # c
    THEN s
    ELSE trim_end_matches(SubSeq(s, 1, Len(s) - 1), c)

\* format!("{}/run", self.base_url.trim_end_matches('/'))
run_url(self) ==
    trim_end_matches(self.base_url, "/") \o <<"/", "r", "u", "n">>

-----------------------------------------------------------------------------
(* serde_json::to_vec of the derived Serialize implementations: compact     *)
(* JSON, the fields in declaration order.                                   *)

\* serde_json's string escaping, for the characters of the model's alphabet
RECURSIVE format_escaped_str_contents(_)
format_escaped_str_contents(s) ==
    IF s = <<>> THEN <<>>
    ELSE LET c == Head(s)
             e == IF c = Q THEN <<BS, Q>>
                  ELSE IF c = BS THEN <<BS, BS>>
                  ELSE <<c>>
         IN  e \o format_escaped_str_contents(Tail(s))

\* a String: its escaped contents between double quotes
serialize_str(s) == <<Q>> \o format_escaped_str_contents(s) \o <<Q>>

\* mutant: None is written as the empty string
serialize_option_empty(o) ==
    IF o.some THEN serialize_str(o.val) ELSE serialize_str(<<>>)

\* an Option<String>: None is written null, Some(s) as the string s
serialize_option(o) ==
    IF o.some THEN serialize_str(o.val) ELSE <<"n", "u", "l", "l">>

\* one "key": of an object
serialize_key(k) == serialize_str(k) \o <<":">>

\* File { name, content }
serialize_File(f) ==
    <<"{">> \o serialize_key(<<"n", "a", "m", "e">>) \o serialize_str(f.name)
    \o <<",">> \o serialize_key(<<"c", "o", "n", "t", "e", "n", "t">>)
    \o serialize_str(f.content) \o <<"}">>

\* the elements of a Vec<File>, in order, separated by commas
RECURSIVE serialize_seq_elements(_)
serialize_seq_elements(fs) ==
    IF fs = <<>> THEN <<>>
    ELSE IF Len(fs) = 1 THEN serialize_File(fs[1])
    ELSE serialize_File(fs[1]) \o <<",">> \o serialize_seq_elements(Tail(fs))

\* Vec<File>
serialize_Vec(fs) == <<"[">> \o serialize_seq_elements(fs) \o <<"]">>

\* RunRequestPayload { language, files, stdin, command }
serialize_RunRequestPayload(p) ==
    <<"{">> \o serialize_key(<<"l", "a", "n", "g", "u", "a", "g", "e">>)
    \o serialize_str(p.language)
    \o <<",">> \o serialize_key(<<"f", "i", "l", "e", "s">>)
    \o serialize_Vec(p.files)
    \o <<",">> \o serialize_key(<<"s", "t", "d", "i", "n">>)
    \o serialize_option(p.stdin)
    \o <<",">> \o serialize_key(<<"c", "o", "m", "m", "a", "n", "d">>)
    \o serialize_option(p.command) \o <<"}">>

\* RunRequest { image, payload }
serialize_RunRequest(r) ==
    <<"{">> \o serialize_key(<<"i", "m", "a", "g", "e">>)
    \o serialize_str(r.image)
    \o <<",">> \o serialize_key(<<"p", "a", "y", "l", "o", "a", "d">>)
    \o serialize_RunRequestPayload(r.payload) \o <<"}">>

\* serde_json::to_vec(&run_request): writing strings, a sequence and options
\* into a Vec<u8> has no failing case, so the result is always Ok
to_vec(r) == [ok |-> TRUE, bytes |-> serialize_RunRequest(r)]

-----------------------------------------------------------------------------
(* The values run works on. *)

\* the threads of the caller that invoke run, sharing one &Config
Threads == {"t1", "t2"}

\* request timeout in seconds
Timeout == 300

main_py == [name |-> <<"m">>, content |-> <<"p", Q, "a", Q>>]

lib_py == [name |-> <<"l">>, content |-> <<BS, "n">>]

RunRequest(image, language, files, stdin, command) ==
    [image |-> image,
     payload |-> [language |-> language, files |-> files,
                  stdin |-> stdin, command |-> command]]

\* the requests the callers of Spec pass to run
Requests ==
    {RunRequest(<<"i">>, <<"p", "y">>, <<>>, None, None),
     RunRequest(<<"i">>, <<"p", "y">>, <<main_py, lib_py>>, Some(<<>>), Some(<<"a">>)),
     RunRequest(<<"j">>, <<>>, <<lib_py, main_py>>, Some(<<"a", Q>>), None)}

\* the configurations run is called with in Spec
Configs ==
    {[base_url |-> <<"h", ":", "/", "/", "x">>, access_token |-> "token-a"],
     [base_url |-> <<"h", ":", "/", "/", "x", "/", "/">>, access_token |-> "token-b"]}

-----------------------------------------------------------------------------
(* The transport: what ureq's send_bytes may return. A response body is     *)
(* either not JSON at all or a JSON object, a function from its keys to     *)
(* values.                                                                  *)

JString(s) == [type |-> "string", s |-> s]

JNull == [type |-> "null"]

NotJson == [json |-> FALSE]

JObject(members) == [json |-> TRUE, members |-> members]

\* the bodies a service may answer with
Bodies ==
    {JObject([stdout |-> JString("a"), stderr |-> JString(""), error |-> JString("")]),
     JObject([stdout |-> JString(""), stderr |-> JString("b"), error |-> JString("exit 1")]),
     JObject([stderr |-> JString(""), error |-> JString("")]),
     JObject([stdout |-> JNull, stderr |-> JString(""), error |-> JString("")]),
     JObject([message |-> JString("bad language")]),
     JObject([message |-> JString("busy"), stdout |-> JString("a"),
              stderr |-> JString(""), error |-> JString("")]),
     JObject([message |-> JNull]),
     NotJson}

\* the status codes of the HTTP responses of the model
Statuses == {199, 200, 299, 300, 400}

\* an HTTP response was read: no error is attached to it
HttpResponses ==
    [status : Statuses, synthetic : {FALSE}, error : {None}, body : Bodies]

\* ureq's transport errors with the status ureq gives their synthetic response
TransportErrors ==
    {[kind |-> "DnsFailed", status |-> 400],
     [kind |-> "ConnectionFailed", status |-> 500],
     [kind |-> "Io", status |-> 500]}

\* no HTTP response was read: ureq returns a synthetic response, never with
\* a success status. Its error is an Option in ureq's interface (line 67);
\* both cases are drawn.
SyntheticResponses ==
    {[status |-> e.status, synthetic |-> TRUE, error |-> Some(e.kind), body |-> NotJson]
        : e \in TransportErrors}
    \cup {[status |-> 500, synthetic |-> TRUE, error |-> None, body |-> NotJson]}

Responses == HttpResponses \cup SyntheticResponses

\* mutant: everything below 400 counts as a success
ok_below_400(resp) == resp.status < 400

\* ureq::Response::ok
ok(resp) == 200 <= resp.status /\ resp.status <= 299

\* mutant: the transport's failure is not looked at
synthetic_unchecked(resp) == FALSE

\* ureq::Response::synthetic
synthetic(resp) == resp.synthetic

\* ureq::Response::into_synthetic_error
into_synthetic_error(resp) == resp.error

\* ureq::Response::status
status(resp) == resp.status

\* whether JSON object o has member k, a string
string_member(o, k) == k \in DOMAIN o /\ o[k].type = "string"

\* mutant: the fields of RunResult default to "" (#[serde(default)])
into_json_deserialize_RunResult_default(resp) ==
    LET b == resp.body
        field(k) == IF string_member(b.members, k) THEN b.members[k].s ELSE ""
    IN  IF ~b.json
        THEN [ok |-> FALSE, err |-> "syntax"]
        ELSE [ok |-> TRUE,
              value |-> [stdout |-> field("stdout"), stderr |-> field("stderr"),
                         error |-> field("error")]]

\* response.into_json_deserialize::<RunResult>(): every field required, of
\* type String; members that are no field of RunResult are ignored
into_json_deserialize_RunResult(resp) ==
    LET b == resp.body
    IN  IF ~b.json
        THEN [ok |-> FALSE, err |-> "syntax"]
        ELSE IF \A k \in {"stdout", "stderr", "error"} : string_member(b.members, k)
        THEN [ok |-> TRUE,
              value |-> [stdout |-> b.members["stdout"].s,
                         stderr |-> b.members["stderr"].s,
                         error |-> b.members["error"].s]]
        ELSE [ok |-> FALSE, err |-> "data"]

\* response.into_json_deserialize::<api::ErrorBody>(): ErrorBody { message }
into_json_deserialize_ErrorBody(resp) ==
    LET b == resp.body
    IN  IF ~b.json
        THEN [ok |-> FALSE, err |-> "syntax"]
        ELSE IF string_member(b.members, "message")
        THEN [ok |-> TRUE, value |-> [message |-> b.members["message"].s]]
        ELSE [ok |-> FALSE, err |-> "data"]

-----------------------------------------------------------------------------
(* Error, and the Result run returns. *)

SerializeRequest(err) == [tag |-> "SerializeRequest", err |-> err]

Request(err) == [tag |-> "Request", err |-> err]

DeserializeResponse(err) == [tag |-> "DeserializeResponse", err |-> err]

DeserializeErrorResponse(err) == [tag |-> "DeserializeErrorResponse", err |-> err]

EmptySynthetic == [tag |-> "EmptySynthetic"]

\* Error::ResponseNotOk(api::ErrorResponse { status_code, body })
ResponseNotOk(status_code, error_body) ==
    [tag |-> "ResponseNotOk", status_code |-> status_code, body |-> error_body]

Ok(value) == [ok |-> TRUE, value |-> value]

Err(error) == [ok |-> FALSE, error |-> error]

-----------------------------------------------------------------------------
(* check_response *)

\* mutant: the status code is read after the response was consumed
check_response_status_lost(resp) ==
    IF ~ok(resp)
    THEN IF synthetic(resp)
         THEN LET err == into_synthetic_error(resp)
              IN  IF ~err.some
                  THEN Err(EmptySynthetic)
                  ELSE Err(Request(err.val))
         ELSE LET error_body == into_json_deserialize_ErrorBody(resp)
              IN  IF ~error_body.ok
                  THEN Err(DeserializeErrorResponse(error_body.err))
                  ELSE Err(ResponseNotOk(0, error_body.value))
    ELSE Ok(resp)

\* mutant: an undecodable error body is reported as DeserializeResponse
check_response_wrong_variant(resp) ==
    IF ~ok(resp)
    THEN IF synthetic(resp)
         THEN LET err == into_synthetic_error(resp)
              IN  IF ~err.some
                  THEN Err(EmptySynthetic)
                  ELSE Err(Request(err.val))
         ELSE LET status_code == status(resp)
                  error_body == into_json_deserialize_ErrorBody(resp)
              IN  IF ~error_body.ok
                  THEN Err(DeserializeResponse(error_body.err))
                  ELSE Err(ResponseNotOk(status_code, error_body.value))
    ELSE Ok(resp)

check_response(resp) ==
    IF ~ok(resp)
    THEN IF synthetic(resp)
         THEN LET err == into_synthetic_error(resp)
              IN  IF ~err.some
                  THEN Err(EmptySynthetic)
                  ELSE Err(Request(err.val))
         ELSE LET status_code == status(resp)
                  error_body == into_json_deserialize_ErrorBody(resp)
              IN  IF ~error_body.ok
                  THEN Err(DeserializeErrorResponse(error_body.err))
                  ELSE Err(ResponseNotOk(status_code, error_body.value))
    ELSE Ok(resp)

-----------------------------------------------------------------------------
(* The request run builds with ureq's builder. *)

\* ureq::post(url)
post(url) == [method |-> "POST", url |-> url, headers |-> <<>>, timeout |-> 0]

\* mutant: setting a header drops the headers set before
set_replacing(req, header, value) ==
    [req EXCEPT !.headers = [h \in {header} |-> value]]

\* ureq::Request::set(header, value): the header is added, or replaced
set(req, header, value) ==
    [req EXCEPT !.headers =
        [h \in DOMAIN req.headers \cup {header} |->
            IF h = header THEN value ELSE req.headers[h]]]

\* ureq::Request::timeout(Duration::from_secs(secs))
timeout(req, secs) == [req EXCEPT !.timeout = secs]

\* what send_bytes(&body) puts on the wire: the request with its body
send_bytes(req, bytes) ==
    [method |-> req.method, url |-> req.url, headers |-> req.headers,
     timeout |-> req.timeout, body |-> bytes]

\* the request of lines 52-56
build_request(cfg, bytes) ==
    send_bytes(
        timeout(
            set(set(post(run_url(cfg)), "X-Access-Token", cfg.access_token),
                "Content-Type", "application/json"),
            Timeout),
        bytes)

-----------------------------------------------------------------------------
(* run, one invocation per thread at a time.                                *)
(*   Idle -> RequestSerialized -> AwaitingResponse -> ResponseReceived      *)
(*        -> Done -> Idle                                                   *)

\* run is entered with a request; line 49-50: the request is serialized, and
\* a failure returns Err(SerializeRequest) at once
Start(t) ==
    /\ pc[t] = "Idle"
    /\ \E r \in Requests :
         LET res == to_vec(r)
         IN  /\ run_request' = [run_request EXCEPT ![t] = r]
             /\ sent' = [sent EXCEPT ![t] = <<>>]
             /\ response' = [response EXCEPT ![t] = Unset]
             /\ IF res.ok
                THEN /\ body' = [body EXCEPT ![t] = res.bytes]
                     /\ outcome' = [outcome EXCEPT ![t] = Unset]
                     /\ pc' = [pc EXCEPT ![t] = "RequestSerialized"]
                ELSE /\ body' = [body EXCEPT ![t] = Unset]
                     /\ outcome' = [outcome EXCEPT ![t] = Err(SerializeRequest(res.err))]
                     /\ pc' = [pc EXCEPT ![t] = "Done"]
    /\ UNCHANGED <<config, input, output>>

\* lines 52-56: the request is built and handed to the transport; the thread
\* blocks in send_bytes
Send(t) ==
    /\ pc[t] = "RequestSerialized"
    /\ sent' = [sent EXCEPT ![t] = Append(@, build_request(config, body[t]))]
    /\ pc' = [pc EXCEPT ![t] = "AwaitingResponse"]
    /\ UNCHANGED <<config, run_request, body, response, outcome, input, output>>

\* line 56: send_bytes returns, with the response read or with a synthetic
\* one (the transport failed, or the 300 s ran out)
Receive(t) ==
    /\ pc[t] = "AwaitingResponse"
    /\ \E resp \in Responses :
         response' = [response EXCEPT ![t] = resp]
    /\ pc' = [pc EXCEPT ![t] = "ResponseReceived"]
    /\ UNCHANGED <<config, run_request, body, sent, outcome, input, output>>

\* lines 58-61: check_response(response)?, then the body as RunResult
classify(resp) ==
    LET checked == check_response(resp)
    IN  IF ~checked.ok
        THEN checked
        ELSE LET result == into_json_deserialize_RunResult(checked.value)
             IN  IF result.ok
                 THEN Ok(result.value)
                 ELSE Err(DeserializeResponse(result.err))

\* mutant: after a transport failure the request is sent again
Finish_retrying(t) ==
    /\ pc[t] = "ResponseReceived"
    /\ IF response[t].synthetic
       THEN /\ pc' = [pc EXCEPT ![t] = "RequestSerialized"]
            /\ UNCHANGED outcome
       ELSE /\ outcome' = [outcome EXCEPT ![t] = classify(response[t])]
            /\ pc' = [pc EXCEPT ![t] = "Done"]
    /\ UNCHANGED <<config, run_request, body, sent, response, input, output>>

\* lines 58-62: the response is classified and run returns its Result
Finish(t) ==
    /\ pc[t] = "ResponseReceived"
    /\ outcome' = [outcome EXCEPT ![t] = classify(response[t])]
    /\ pc' = [pc EXCEPT ![t] = "Done"]
    /\ UNCHANGED <<config, run_request, body, sent, response, input, output>>

\* mutant: the result is kept for the next call (a cache)
Return_caching(t) ==
    /\ pc[t] = "Done"
    /\ pc' = [pc EXCEPT ![t] = "Idle"]
    /\ run_request' = [run_request EXCEPT ![t] = Unset]
    /\ body' = [body EXCEPT ![t] = Unset]
    /\ sent' = [sent EXCEPT ![t] = <<>>]
    /\ response' = [response EXCEPT ![t] = Unset]
    /\ UNCHANGED <<config, outcome, input, output>>

\* run has returned: its locals are dropped, the caller holds the result and
\* may call again
Return(t) ==
    /\ pc[t] = "Done"
    /\ pc' = [pc EXCEPT ![t] = "Idle"]
    /\ run_request' = [run_request EXCEPT ![t] = Unset]
    /\ body' = [body EXCEPT ![t] = Unset]
    /\ sent' = [sent EXCEPT ![t] = <<>>]
    /\ response' = [response EXCEPT ![t] = Unset]
    /\ outcome' = [outcome EXCEPT ![t] = Unset]
    /\ UNCHANGED <<config, input, output>>

Init ==
    /\ config \in Configs
    /\ pc = [t \in Threads |-> "Idle"]
    /\ run_request = [t \in Threads |-> Unset]
    /\ body = [t \in Threads |-> Unset]
    /\ sent = [t \in Threads |-> <<>>]
    /\ response = [t \in Threads |-> Unset]
    /\ outcome = [t \in Threads |-> Unset]
    /\ input = Unset
    /\ output = Unset

Next ==
    \E t \in Threads :
        \/ Start(t)
        \/ Send(t)
        \/ Receive(t)
        \/ Finish(t)
        \/ Return(t)

Spec == Init /\ [][Next]_vars

\* run is straight-line code on a thread that keeps running, and send_bytes
\* returns when the response is read, the transport fails or the timeout
\* ends: an invocation under way goes on. Nothing makes a caller call.
FairSpec ==
    /\ Spec
    /\ \A t \in Threads :
         WF_vars(Send(t)) /\ WF_vars(Receive(t)) /\ WF_vars(Finish(t))

-----------------------------------------------------------------------------
(* Config::run_url applied to the base_urls of at most MaxUrlLen           *)
(* characters.                                                              *)

UrlChars == {"x", ":", "/"}

UrlConfigs ==
    [base_url : StringsUpTo(UrlChars, MaxUrlLen), access_token : {"token-a"}]

InitUrl ==
    /\ config \in UrlConfigs
    /\ pc = [t \in Threads |-> "Idle"]
    /\ run_request = [t \in Threads |-> Unset]
    /\ body = [t \in Threads |-> Unset]
    /\ sent = [t \in Threads |-> <<>>]
    /\ response = [t \in Threads |-> Unset]
    /\ outcome = [t \in Threads |-> Unset]
    /\ input = Unset
    /\ output = Unset

\* config.run_url()
ApplyRunUrl ==
    /\ ~output.set
    /\ output' = [set |-> TRUE, value |-> run_url(config)]
    /\ UNCHANGED <<config, pc, run_request, body, sent, response, outcome, input>>

SpecUrl == InitUrl /\ [][ApplyRunUrl]_vars

-----------------------------------------------------------------------------
(* serde_json::to_vec applied to requests whose stdin and command range     *)
(* over None and the strings of at most MaxStrLen characters.               *)

StrChars == {"a", Q, BS}

OptionStrings ==
    {None} \cup {Some(s) : s \in StringsUpTo(StrChars, MaxStrLen) \cup {<<"n", "u", "l", "l">>}}

JsonRequests ==
    {RunRequest(<<"i">>, <<"p", "y">>, fs, si, co) :
        fs \in {<<>>, <<main_py, lib_py>>}, si \in OptionStrings, co \in OptionStrings}

InitJson ==
    /\ config \in Configs
    /\ pc = [t \in Threads |-> "Idle"]
    /\ run_request = [t \in Threads |-> Unset]
    /\ body = [t \in Threads |-> Unset]
    /\ sent = [t \in Threads |-> <<>>]
    /\ response = [t \in Threads |-> Unset]
    /\ outcome = [t \in Threads |-> Unset]
    /\ input \in JsonRequests
    /\ output = Unset

\* serde_json::to_vec(&run_request)
ApplyToVec ==
    /\ ~output.set
    /\ output' = [set |-> TRUE, value |-> to_vec(input)]
    /\ UNCHANGED <<config, pc, run_request, body, sent, response, outcome, input>>

SpecJson == InitJson /\ [][ApplyToVec]_vars

-----------------------------------------------------------------------------
(* The reader of the request body: a JSON decoder, as the service applies   *)
(* one to the bytes it receives. A decoded value is null, a string, an      *)
(* array or an object (its members in order). Every operator returns        *)
(* [ok, val, next]: next is the position after the value read.              *)

DecodeFailed == [ok |-> FALSE, val |-> [type |-> "none"], next |-> 0]

Decoded(val, next) == [ok |-> TRUE, val |-> val, next |-> next]

\* the characters of a string from position i (after the opening quote) to
\* its closing quote, the escapes \" and \\ undone
RECURSIVE decode_string_from(_, _, _)
decode_string_from(s, i, acc) ==
    IF i > Len(s) THEN DecodeFailed
    ELSE IF s[i] = Q THEN Decoded([type |-> "string", s |-> acc], i + 1)
    ELSE IF s[i] = BS
    THEN IF i + 1 <= Len(s) /\ s[i + 1] \in {Q, BS}
         THEN decode_string_from(s, i + 2, Append(acc, s[i + 1]))
         ELSE DecodeFailed
    ELSE decode_string_from(s, i + 1, Append(acc, s[i]))

RECURSIVE decode_value(_, _)
RECURSIVE decode_elements(_, _, _)
RECURSIVE decode_members(_, _, _)

\* the elements of an array from position i, up to its closing bracket
decode_elements(s, i, acc) ==
    LET v == decode_value(s, i)
    IN  IF ~v.ok \/ v.next > Len(s) THEN DecodeFailed
        ELSE IF s[v.next] = ","
        THEN decode_elements(s, v.next + 1, Append(acc, v.val))
        ELSE IF s[v.next] = "]"
        THEN Decoded([type |-> "array", items |-> Append(acc, v.val)], v.next + 1)
        ELSE DecodeFailed

\* the members of an object from position i, up to its closing brace
decode_members(s, i, acc) ==
    IF i > Len(s) \/ s[i] # Q THEN DecodeFailed
    ELSE LET k == decode_string_from(s, i + 1, <<>>)
         IN  IF ~k.ok \/ k.next > Len(s) \/ s[k.next] # ":" THEN DecodeFailed
             ELSE LET v == decode_value(s, k.next + 1)
                      more == Append(acc, [key |-> k.val.s, val |-> v.val])
                  IN  IF ~v.ok \/ v.next > Len(s) THEN DecodeFailed
                      ELSE IF s[v.next] = ","
                      THEN decode_members(s, v.next + 1, more)
                      ELSE IF s[v.next] = "}"
                      THEN Decoded([type |-> "object", members |-> more], v.next + 1)
                      ELSE DecodeFailed

decode_value(s, i) ==
    IF i > Len(s) THEN DecodeFailed
    ELSE IF s[i] = Q THEN decode_string_from(s, i + 1, <<>>)
    ELSE IF s[i] = "n"
    THEN IF i + 3 <= Len(s) /\ SubSeq(s, i, i + 3) = <<"n", "u", "l", "l">>
         THEN Decoded([type |-> "null"], i + 4)
         ELSE DecodeFailed
    ELSE IF s[i] = "["
    THEN IF i + 1 <= Len(s) /\ s[i + 1] = "]"
         THEN Decoded([type |-> "array", items |-> <<>>], i + 2)
         ELSE decode_elements(s, i + 1, <<>>)
    ELSE IF s[i] = "{"
    THEN IF i + 1 <= Len(s) /\ s[i + 1] = "}"
         THEN Decoded([type |-> "object", members |-> <<>>], i + 2)
         ELSE decode_members(s, i + 1, <<>>)
    ELSE DecodeFailed

\* the whole text as one JSON value
decode_json(s) ==
    LET v == decode_value(s, 1)
    IN  IF v.ok /\ v.next = Len(s) + 1 THEN v ELSE DecodeFailed

\* whether object o has exactly one member named k
HasMember(o, k) ==
    /\ o.type = "object"
    /\ Cardinality({i \in 1..Len(o.members) : o.members[i].key = k}) = 1

Member(o, k) ==
    o.members[CHOOSE i \in 1..Len(o.members) : o.members[i].key = k].val

IsString(v) == v.type = "string"

\* an optional string member: absent or null is None, a string s is Some(s)
DecodedOption(o, k) ==
    IF ~HasMember(o, k) \/ Member(o, k).type = "null"
    THEN None
    ELSE Some(Member(o, k).s)

Key_image == <<"i", "m", "a", "g", "e">>

Key_payload == <<"p", "a", "y", "l", "o", "a", "d">>

Key_language == <<"l", "a", "n", "g", "u", "a", "g", "e">>

Key_files == <<"f", "i", "l", "e", "s">>

Key_stdin == <<"s", "t", "d", "i", "n">>

Key_command == <<"c", "o", "m", "m", "a", "n", "d">>

Key_name == <<"n", "a", "m", "e">>

Key_content == <<"c", "o", "n", "t", "e", "n", "t">>

\* whether v is null or a string
IsOptionalString(v) == v.type \in {"null", "string"}

\* whether the decoded value has the shape of the request body (section 6)
IsRunRequestJson(v) ==
    /\ v.type = "object"
    /\ HasMember(v, Key_image) /\ IsString(Member(v, Key_image))
    /\ HasMember(v, Key_payload)
    /\ LET p == Member(v, Key_payload)
       IN  /\ p.type = "object"
           /\ HasMember(p, Key_language) /\ IsString(Member(p, Key_language))
           /\ HasMember(p, Key_files) /\ Member(p, Key_files).type = "array"
           /\ \A i \in 1..Len(Member(p, Key_files).items) :
                LET f == Member(p, Key_files).items[i]
                IN  /\ HasMember(f, Key_name) /\ IsString(Member(f, Key_name))
                    /\ HasMember(f, Key_content) /\ IsString(Member(f, Key_content))
           /\ HasMember(p, Key_stdin) => IsOptionalString(Member(p, Key_stdin))
           /\ HasMember(p, Key_command) => IsOptionalString(Member(p, Key_command))

\* the RunRequest a body of that shape stands for
DecodedRunRequest(v) ==
    LET p == Member(v, Key_payload)
        fs == Member(p, Key_files).items
    IN  RunRequest(
            Member(v, Key_image).s,
            Member(p, Key_language).s,
            [i \in 1..Len(fs) |->
                [name |-> Member(fs[i], Key_name).s,
                 content |-> Member(fs[i], Key_content).s]],
            DecodedOption(p, Key_stdin),
            DecodedOption(p, Key_command))

\* C9: the body to_vec writes decodes as JSON, and the decoded payload gives
\* back stdin and command: null (or no member) exactly when the field was
\* None, and otherwise the string that was given, the empty string included.
C9_OptionRoundTrip ==
    output.set =>
        /\ output.value.ok
        /\ LET v == decode_json(output.value.bytes)
           IN  /\ v.ok
               /\ IsRunRequestJson(v.val)
               /\ LET p == Member(v.val, Key_payload)
                  IN  /\ DecodedOption(p, Key_stdin) = input.payload.stdin
                      /\ DecodedOption(p, Key_command) = input.payload.command

\* to_vec has written a request with stdin None and command Some("")
C9_Witness ==
    /\ output.set
    /\ input.payload.stdin = None
    /\ input.payload.command = Some(<<>>)
    /\ DecodedOption(Member(decode_json(output.value.bytes).val, Key_payload), Key_stdin)
         # DecodedOption(Member(decode_json(output.value.bytes).val, Key_payload), Key_command)

-----------------------------------------------------------------------------
(* What the claims say of a response, stated on the response itself.        *)

\* an HTTP response was read (the transport did not fail)
HttpResponseReceived(r) == "synthetic" \in DOMAIN r /\ ~r.synthetic

SuccessStatus(r) == r.status \in 200..299

\* the body is a JSON object with the members of RunResult, all strings
BodyIsRunResult(r) ==
    /\ r.body.json
    /\ {"stdout", "stderr", "error"} \subseteq DOMAIN r.body.members
    /\ \A k \in {"stdout", "stderr", "error"} : r.body.members[k].type = "string"

\* the body is a JSON object with a string member message
BodyIsErrorBody(r) ==
    /\ r.body.json
    /\ "message" \in DOMAIN r.body.members
    /\ r.body.members["message"].type = "string"

Returned(t) == pc[t] = "Done"

Failed(t, tag) == ~outcome[t].ok /\ outcome[t].error.tag = tag

\* the transport failed: send_bytes returned no HTTP response
TransportFailed(r) == "synthetic" \in DOMAIN r /\ r.synthetic

-----------------------------------------------------------------------------
(* The claims. *)

\* C1: a response with a non-success status whose body is an ErrorBody makes
\* run fail with ResponseNotOk, carrying the status code of that response and
\* the message of its body.
C1_ResponseNotOkKeepsStatusAndMessage ==
    \A t \in Threads :
        (/\ Returned(t)
         /\ HttpResponseReceived(response[t])
         /\ ~SuccessStatus(response[t])
         /\ BodyIsErrorBody(response[t]))
        => /\ Failed(t, "ResponseNotOk")
           /\ outcome[t].error.status_code = response[t].status
           /\ outcome[t].error.body.message = response[t].body.members["message"].s

\* run has returned ResponseNotOk for status 400 and message "bad language"
C1_Witness ==
    \E t \in Threads :
        /\ Returned(t)
        /\ response[t].status = 400
        /\ ~response[t].synthetic
        /\ response[t].body = JObject([message |-> JString("bad language")])
        /\ outcome[t] = Err(ResponseNotOk(400, [message |-> "bad language"]))

\* C2: run returns Ok exactly when an HTTP response with a success status was
\* received whose body is a RunResult, and the RunResult returned has the
\* stdout, stderr and error of that body.
C2_OkIffSuccessAndRunResult ==
    \A t \in Threads :
        Returned(t) =>
            /\ outcome[t].ok <=>
                 (/\ HttpResponseReceived(response[t])
                  /\ SuccessStatus(response[t])
                  /\ BodyIsRunResult(response[t]))
            /\ outcome[t].ok =>
                 /\ DOMAIN outcome[t].value = {"stdout", "stderr", "error"}
                 /\ \A k \in {"stdout", "stderr", "error"} :
                      outcome[t].value[k] = response[t].body.members[k].s

\* run has returned the RunResult of a success response, and in another
\* thread an error for a non-success response with a RunResult body
C2_Witness ==
    \E t, u \in Threads :
        /\ Returned(t) /\ Returned(u)
        /\ response[t].status = 200
        /\ outcome[t] = Ok([stdout |-> "a", stderr |-> "", error |-> ""])
        /\ response[u].status = 400 /\ BodyIsRunResult(response[u])
        /\ ~outcome[u].ok

\* C3: a response with a success status whose body is no RunResult makes run
\* fail with DeserializeResponse: no RunResult is returned and no other
\* error.
C3_MalformedSuccessBody ==
    \A t \in Threads :
        (/\ Returned(t)
         /\ HttpResponseReceived(response[t])
         /\ SuccessStatus(response[t])
         /\ ~BodyIsRunResult(response[t]))
        => Failed(t, "DeserializeResponse")

\* run has returned DeserializeResponse for a 200 whose body lacks stdout
C3_Witness ==
    \E t \in Threads :
        /\ Returned(t)
        /\ response[t].status = 200
        /\ response[t].body.json
        /\ DOMAIN response[t].body.members = {"stderr", "error"}
        /\ Failed(t, "DeserializeResponse")

\* C4: a response with a non-success status whose body is no ErrorBody makes
\* run fail with DeserializeErrorResponse, also when the body is a RunResult.
C4_MalformedErrorBody ==
    \A t \in Threads :
        (/\ Returned(t)
         /\ HttpResponseReceived(response[t])
         /\ ~SuccessStatus(response[t])
         /\ ~BodyIsErrorBody(response[t]))
        => Failed(t, "DeserializeErrorResponse")

\* run has returned DeserializeErrorResponse for a 300 whose body is not JSON
\* and, in another thread, for a 400 whose body is a RunResult without message
C4_Witness ==
    \E t, u \in Threads :
        /\ Returned(t) /\ Returned(u)
        /\ response[t].status = 300 /\ ~response[t].synthetic /\ ~response[t].body.json
        /\ Failed(t, "DeserializeErrorResponse")
        /\ response[u].status = 400 /\ BodyIsRunResult(response[u])
        /\ Failed(u, "DeserializeErrorResponse")

\* C5: when the transport produced no HTTP response, run fails with Request
\* carrying the transport's error if there is one and with EmptySynthetic if
\* there is none.
C5_TransportFailure ==
    \A t \in Threads :
        (Returned(t) /\ TransportFailed(response[t]))
        => /\ response[t].error.some =>
                /\ Failed(t, "Request")
                /\ outcome[t].error.err = response[t].error.val
           /\ ~response[t].error.some => Failed(t, "EmptySynthetic")

\* run has returned Request(ConnectionFailed) in one thread and
\* EmptySynthetic in another
C5_Witness ==
    \E t, u \in Threads :
        /\ Returned(t) /\ Returned(u)
        /\ response[t].synthetic /\ response[t].error = Some("ConnectionFailed")
        /\ outcome[t] = Err(Request("ConnectionFailed"))
        /\ response[u].synthetic /\ response[u].error = None
        /\ outcome[u] = Err(EmptySynthetic)

C8_RequestSent ==
    \A t \in Threads :
        \A i \in 1..Len(sent[t]) :
            LET v == decode_json(sent[t][i].body)
            IN  /\ sent[t][i].method = "POST"
                /\ sent[t][i].url = run_url(config)
                /\ {"X-Access-Token", "Content-Type"} \subseteq DOMAIN sent[t][i].headers
                /\ sent[t][i].headers["X-Access-Token"] = config.access_token
                /\ sent[t][i].headers["Content-Type"] = "application/json"
                /\ v.ok
                /\ IsRunRequestJson(v.val)
                /\ DecodedRunRequest(v.val) = run_request[t]

\* both threads have sent, each its own request, one with two files
C8_Witness ==
    \E t, u \in Threads :
        /\ Len(sent[t]) = 1 /\ Len(sent[u]) = 1
        /\ run_request[t] # run_request[u]
        /\ Len(run_request[t].payload.files) = 2
        /\ run_request[t].payload.files[1] # run_request[t].payload.files[2]
        /\ sent[t][1].body # sent[u][1].body

\* whether text u has a double slash at positions i, i + 1
DoubleSlashAt(u, i) == i + 1 <= Len(u) /\ u[i] = "/" /\ u[i + 1] = "/"

\* u is b without its trailing slashes, followed by /run
IsTrimmedThenRun(u, b) ==
    \E k \in 0..Len(b) :
        /\ k = 0 \/ b[k] # "/"
        /\ \A j \in (k + 1)..Len(b) : b[j] = "/"
        /\ u = SubSeq(b, 1, k) \o <<"/", "r", "u", "n">>

\* base_url with one more slash at its end, and with one less, give u too
SameWithAndWithoutSlash(u, b) ==
    /\ run_url([config EXCEPT !.base_url = b \o <<"/">>]) = u
    /\ (b # <<>> /\ b[Len(b)] = "/")
         => run_url([config EXCEPT !.base_url = SubSeq(b, 1, Len(b) - 1)]) = u

\* u ends in /run, and what precedes that does not end in a slash
OneSlashBeforeRun(u) ==
    /\ Len(u) >= 4
    /\ SubSeq(u, Len(u) - 3, Len(u)) = <<"/", "r", "u", "n">>
    /\ Len(u) > 4 => u[Len(u) - 4] # "/"

\* C7 as stated: run_url is base_url without its trailing slashes followed by
\* /run, the same with and without a trailing slash, with one slash before
\* run, and the URL contains no double slash at all.
C7_NoDoubleSlashAnywhere ==
    output.set =>
        /\ IsTrimmedThenRun(output.value, config.base_url)
        /\ SameWithAndWithoutSlash(output.value, config.base_url)
        /\ OneSlashBeforeRun(output.value)
        /\ \A i \in 1..Len(output.value) : ~DoubleSlashAt(output.value, i)

\* C7, amended: run_url is base_url without its trailing slashes followed by
\* /run, the same with and without a trailing slash, with one slash before
\* run; every double slash of the URL is one base_url has at the same place,
\* before its trailing slashes: run_url adds none.
C7_RunUrl ==
    output.set =>
        /\ IsTrimmedThenRun(output.value, config.base_url)
        /\ SameWithAndWithoutSlash(output.value, config.base_url)
        /\ OneSlashBeforeRun(output.value)
        /\ \A i \in 1..Len(output.value) :
             DoubleSlashAt(output.value, i) =>
                /\ DoubleSlashAt(config.base_url, i)
                /\ \E j \in (i + 2)..Len(config.base_url) : config.base_url[j] # "/"

\* run_url was applied to "//x/": the trailing slash is gone and the double
\* slash base_url begins with is kept
C7_Witness ==
    /\ output.set
    /\ config.base_url = <<"/", "/", "x", "/">>
    /\ output.value = <<"/", "/", "x", "/", "r", "u", "n">>

\* the stages an invocation goes through, in order
StageSteps ==
    {<<"Idle", "RequestSerialized">>, <<"Idle", "Done">>,
     <<"RequestSerialized", "AwaitingResponse">>,
     <<"AwaitingResponse", "ResponseReceived">>,
     <<"ResponseReceived", "Done">>, <<"Done", "Idle">>}

ErrorTags ==
    {"SerializeRequest", "Request", "DeserializeResponse",
     "DeserializeErrorResponse", "EmptySynthetic", "ResponseNotOk"}

\* a Result<RunResult, Error>: Ok with the three fields, or one of the errors
IsTerminalOutcome(o) ==
    /\ DOMAIN o \in {{"ok", "value"}, {"ok", "error"}}
    /\ o.ok => DOMAIN o.value = {"stdout", "stderr", "error"}
    /\ ~o.ok => o.error.tag \in ErrorTags

\* C10: an invocation moves forward only (serialized, sent, response
\* received, returned), it returns one outcome, Ok(RunResult) or one of the
\* six errors, which is set when it returns and not before; a request is
\* sent only by an invocation that has serialized its request, and
\* SerializeRequest is returned with nothing sent; a step of one invocation
\* changes nothing of another, and two invocations that received the same
\* response return the same outcome; once the response is received the
\* invocation returns.
C10_LinearStages ==
    /\ [][\A t \in Threads :
            /\ pc'[t] # pc[t] => <<pc[t], pc'[t]>> \in StageSteps
            /\ Returned(t)' => IsTerminalOutcome(outcome'[t])
            /\ ~Returned(t)' => outcome'[t] = Unset
            /\ (Returned(t) /\ Returned(t)') => outcome'[t] = outcome[t]
            /\ sent'[t] # sent[t] /\ sent'[t] # <<>> =>
                 /\ pc[t] = "RequestSerialized"
                 /\ sent[t] = <<>>
                 /\ sent'[t][1].body = to_vec(run_request[t]).bytes
            /\ (Returned(t)' /\ Failed(t, "SerializeRequest")') => sent'[t] = <<>>
            /\ pc'[t] # pc[t] =>
                 \A u \in Threads \ {t} :
                    /\ pc'[u] = pc[u] /\ run_request'[u] = run_request[u]
                    /\ body'[u] = body[u] /\ sent'[u] = sent[u]
                    /\ response'[u] = response[u] /\ outcome'[u] = outcome[u]
            /\ \A u \in Threads :
                 (Returned(t)' /\ Returned(u)' /\ response'[t] = response'[u])
                    => outcome'[t] = outcome'[u]]_vars
    /\ \A t \in Threads : (pc[t] = "ResponseReceived") ~> Returned(t)

\* both invocations have returned, one Ok and one an error, after going
\* through every stage
C10_Witness ==
    \E t, u \in Threads :
        /\ Returned(t) /\ Returned(u)
        /\ outcome[t].ok /\ ~outcome[u].ok
        /\ Len(sent[t]) = 1 /\ Len(sent[u]) = 1
        /\ "status" \in DOMAIN response[t]
        /\ "status" \in DOMAIN response[u]

====
